---- MODULE Spec2Model ----
(***************************************************************************)
(* StreetViewDownloader (streetscope/download/streetview_downloader.py):   *)
(* the dedup filter, the batch loop of download_gsv, the failure log and   *)
(* the projection phase, as a state machine over the output directory.     *)
(*                                                                         *)
(* Strings are sequences of tokens.  A token is a piece of text that no    *)
(* operation of the program cuts: a name piece ("a", "x"), the dot ".",    *)
(* the newline "\n", the extensions "jpg" and "png".  The identifier "a"   *)
(* is <<"a">>, the file name "a.jpg" is <<"a", ".", "jpg">>.               *)
(*                                                                         *)
(* Environment: the user-agent pool holds at least nthreads entries, the   *)
(* log file can be opened for appending, directories can be created.       *)
(***************************************************************************)
EXTENDS Integers, Sequences, FiniteSets, TLC

VARIABLES
    image_style,    \* self._image_style: sequence of style names
    log_path,       \* self._log_path: "" when no log is configured
    nthreads,       \* self._nthreads
    csv,            \* first column of the file at self.path_pid
    root,           \* os.listdir(self.dir_output)
    pano,           \* os.listdir(<dir_output>/panorama)
    malformed,      \* files of the panorama directory that cannot be projected
    logfile,        \* content of the file at log_path
    projected,      \* <<style, name>>: projection task completed, output written
    pc,             \* position of the caller / of download_gsv
    run,            \* number of the current call of download_gsv
    panoids,        \* local panoids
    panoids_rest,   \* local panoids_rest
    i,              \* loop index of the download loop
    task_pids,      \* local task_pids
    errors,         \* local errors
    img_num,        \* local img_num
    style_idx,      \* position in "for style in self.image_style"
    raised,         \* exception that left download_gsv: "none", "config", "projection"
    dispatched,     \* history: batches handed to dwl_multiple in this call, in order
    outcomes,       \* history: "ok" / "fail" of each dispatched batch
    root0,          \* history: root when the call started
    pano0,          \* history: pano when the call started
    log0,           \* history: logfile when the call started
    projected0,     \* history: projected when the call started
    progress,       \* the progress lines printed in this call, in order
    inflight,       \* calls of dwl_multiple that have not returned
    running,        \* <<style, name>>: projection tasks submitted, not finished
    submitted,      \* history: projection tasks submitted in this call
    requests,       \* the get_perspective calls made so far
    written,        \* <<style, file name>>: files written in the style directories
    c_pc,           \* position of ClassifierQuality.classify
    dir_input,      \* classify: [is_file, files], the input path
    batch_size,     \* classify: batch_size
    save_format,    \* classify: save_format
    summary,        \* [exists, files]: the directory dir_summary_output
    todo,           \* classify: image files the dataloader has not yielded
    results         \* classify: results, the filename_key of each row

vars == <<image_style, log_path, nthreads, csv, root, pano, malformed, logfile,
          projected, pc, run, panoids, panoids_rest, i, task_pids, errors,
          img_num, style_idx, raised, dispatched, outcomes, root0, pano0,
          log0, projected0, progress, inflight, running, submitted, requests,
          written, c_pc, dir_input, batch_size, save_format, summary, todo,
          results>>

config == <<image_style, log_path, nthreads, csv, malformed>>
locals == <<panoids, panoids_rest, i, task_pids, errors, img_num>>
history == <<dispatched, outcomes, root0, pano0, log0, projected0>>
phase2 == <<running, submitted, requests, written>>
cvars == <<c_pc, dir_input, batch_size, save_format, summary, todo, results>>
dvars == <<config, locals, history, phase2, root, pano, logfile, projected,
           pc, run, style_idx, raised, progress, inflight>>

----------------------------------------------------------------------------
(* Bounds *)

MaxPids == 5
MaxThreads == 3
MaxRuns == 2
MaxBatch == 3
MaxAppear == 2

----------------------------------------------------------------------------
(* Strings *)

Letters == <<"a", "b", "c", "d", "e", "f", "g", "h">>

Id(k) == <<Letters[k]>>

\* The identifiers Letters[1..k], in order.
IdList(k) == [j \in 1..k |-> Id(j)]

\* <identifier>.jpg, the name dwl_multiple saves a panorama under
Jpg(id) == id \o <<".", "jpg">>

RECURSIVE Flatten(_)
Flatten(ss) == IF ss = <<>> THEN <<>> ELSE Head(ss) \o Flatten(Tail(ss))

\* name.split(".")[0]: the text before the first dot
SplitDot0(name) ==
    IF \E k \in 1..Len(name) : name[k] = "."
    THEN LET k == CHOOSE k \in 1..Len(name) :
                      name[k] = "." /\ \A j \in 1..(k - 1) : name[j] # "."
         IN SubSeq(name, 1, k - 1)
    ELSE name

RECURSIVE Unique(_)
\* pandas unique(): first occurrences, in order
Unique(s) ==
    IF s = <<>> THEN <<>>
    ELSE LET r == Unique(SubSeq(s, 1, Len(s) - 1))
             x == s[Len(s)]
         IN IF \E k \in 1..Len(r) : r[k] = x THEN r ELSE Append(r, x)

----------------------------------------------------------------------------
(* Helpers of StreetViewDownloader *)

_read_pids(file) == Unique(file)

\* _check_already lists self.dir_output
_check_already(all_panoids, listing) ==
    LET name_r == {SplitDot0(name) : name \in listing}
    IN SelectSeq(all_panoids, LAMBDA pid : pid \notin name_r)

RECURSIVE GroupFrom(_, _, _, _, _)
GroupFrom(ps, nt, k, panos, all_pid) ==
    IF k >= Len(ps) THEN all_pid
    ELSE IF k % nt # 0 \/ k = 0
         THEN GroupFrom(ps, nt, k + 1, Append(panos, ps[k + 1]), all_pid)
         ELSE GroupFrom(ps, nt, k + 1, <<>>, Append(all_pid, panos))

\* _get_nthreads_pid: the grouping of the list, with no fetch involved
_get_nthreads_pid(ps, nt) == GroupFrom(ps, nt, 0, <<>>, <<>>)

\* the file opened with 'w': the lines replace the content
_log_write_truncating(content, pids) ==
    Flatten([k \in 1..Len(pids) |-> pids[k] \o <<"\n">>])

\* the file opened with 'a+': pid + '\n' for each pid, after the content
_log_write(content, pids) ==
    content \o Flatten([k \in 1..Len(pids) |-> pids[k] \o <<"\n">>])

\* ImageTool.dwl_multiple: the panoramas of the identifiers in done are
\* assembled and saved as <identifier>.jpg in the directory it is given
dwl_multiple(dir, done) == dir \cup {Jpg(id) : id \in done}

ValidStyles == {"perspective", "fisheye"}

\* line 288: show_size = 100
ShowSize == 100

\* lines 213-216 of run
thetas == <<0, 90, 180, 270>>
FOV == 90
\* aspects_v = (2.25, 4), in hundredths
aspects_v == <<225, 400>>
aspects == <<9, 16>>

\* name.replace('jpg', 'png'): every occurrence is replaced
ReplaceJpg(name) ==
    [k \in 1..Len(name) |-> IF name[k] = "jpg" THEN "png" ELSE name[k]]

RECURSIVE ReplaceDotPng(_, _)
\* path.replace('.png', new): every occurrence, left to right
ReplaceDotPng(path, new) ==
    IF path = <<>> THEN <<>>
    ELSE IF Len(path) >= 2 /\ path[1] = "." /\ path[2] = "png"
         THEN new \o ReplaceDotPng(SubSeq(path, 3, Len(path)), new)
         ELSE <<path[1]>> \o ReplaceDotPng(Tail(path), new)

\* line 221: '%s--%s' % (aspects[0], aspects[1])
aspect_name == <<ToString(aspects[1]), "--", ToString(aspects[2])>>

\* line 223: '_Direction_%s_FOV_%s_aspect_%s_raw.png' % (theta, FOV, aspect_name)
RawSuffix(theta) ==
    <<"_Direction_", ToString(theta), "_FOV_", ToString(FOV), "_aspect_">>
    \o aspect_name \o <<"_raw", ".", "png">>

\* line 228 of process_image: the file name of path_output
process_image(name) == ReplaceJpg(name)

\* the height taken from the width's factor
PerspectiveHeight_swapped(show_size) == (aspects_v[2] * show_size) \div 100

\* lines 219-220: int(aspects_v[0] * show_size), int(aspects_v[1] * show_size)
PerspectiveHeight(show_size) == (aspects_v[1] * show_size) \div 100
PerspectiveWidth(show_size) == (aspects_v[2] * show_size) \div 100

\* line 222: the calls get_perspective(FOV, theta, 0, height, width) of one task
run_requests(style, name, show_size) ==
    IF style = "perspective"
    THEN {[name |-> name, FOV |-> FOV, theta |-> thetas[k], phi |-> 0,
           height |-> PerspectiveHeight(show_size),
           width |-> PerspectiveWidth(show_size)] : k \in 1..Len(thetas)}
    ELSE {}

\* lines 208-224: the file names one task writes in the style directory
run_written(style, name) ==
    IF style = "fisheye" THEN {process_image(name)}
    ELSE IF style = "perspective"
    THEN {ReplaceDotPng(process_image(name), RawSuffix(thetas[k])) :
             k \in 1..Len(thetas)}
    ELSE {}

AllValid(styles) == \A k \in 1..Len(styles) : styles[k] \in ValidStyles

----------------------------------------------------------------------------
(* Initial states: the downloader has been constructed, dir_output exists *)

StyleChoices ==
    {<<>>, <<"perspective", "fisheye">>, <<"fisheye", "cubemap">>}

\* files that may lie in dir_output before the first call
StrayRoot == {<<"a", ".", "x", ".", "jpg">>, <<"b", ".", "jpg">>}

\* an unreadable file left in the panorama directory
StrayPano == <<"z", ".", "jpg">>

\* panoramas of an earlier run, of the identifiers "xjpg" and "xpng"
EarlierPano == {<<"x", "jpg", ".", "jpg">>, <<"x", "png", ".", "jpg">>}

\* what the panorama directory may hold before the first call
OldPanoChoices == {{}, {StrayPano}, EarlierPano}

OldLog == <<"old", "\n">>

DownloaderInit ==
    /\ image_style \in StyleChoices
    /\ nthreads \in 1..MaxThreads
    /\ csv \in {IdList(k) : k \in 0..MaxPids}
    /\ \E withLog \in BOOLEAN :
          /\ log_path = IF withLog THEN "failed.log" ELSE ""
          /\ logfile = IF withLog THEN OldLog ELSE <<>>
    /\ \E stray \in SUBSET StrayRoot, old \in OldPanoChoices :
          /\ root = stray \cup (IF old # {} THEN {<<"panorama">>} ELSE {})
          /\ pano = old
          /\ malformed = old \cap {StrayPano}
    /\ projected = {}
    /\ pc = "idle"
    /\ run = 1
    /\ panoids = <<>>
    /\ panoids_rest = <<>>
    /\ i = 0
    /\ task_pids = <<>>
    /\ errors = 0
    /\ img_num = 0
    /\ style_idx = 0
    /\ raised = "none"
    /\ dispatched = <<>>
    /\ outcomes = <<>>
    /\ root0 = root
    /\ pano0 = pano
    /\ log0 = logfile
    /\ projected0 = projected
    /\ progress = <<>>
    /\ inflight = 0
    /\ running = {}
    /\ submitted = {}
    /\ requests = {}
    /\ written = {}

\* no classifier call is under way
ClassifierIdle ==
    /\ c_pc = "idle"
    /\ dir_input = [is_file |-> FALSE, files |-> {}]
    /\ batch_size = 1
    /\ save_format = <<"json", " ", "csv">>
    /\ summary = [exists |-> FALSE, files |-> {}]
    /\ todo = <<>>
    /\ results = <<>>

Init == DownloaderInit /\ ClassifierIdle

----------------------------------------------------------------------------
(* download_gsv *)

\* lines 243-255: the call starts, the panorama directory is made
Begin ==
    /\ pc = "idle"
    /\ root' = root \cup {<<"panorama">>}
    /\ pc' = "read"
    /\ raised' = "none"
    /\ dispatched' = <<>>
    /\ outcomes' = <<>>
    /\ root0' = root
    /\ pano0' = pano
    /\ log0' = logfile
    /\ projected0' = projected
    /\ progress' = <<>>
    /\ submitted' = {}
    /\ UNCHANGED <<config, locals, pano, logfile, projected, run, style_idx,
                   inflight, running, requests, written>>
    /\ UNCHANGED cvars

\* lines 257-261
ReadAndCheck ==
    /\ pc = "read"
    /\ panoids' = _read_pids(csv)
    /\ panoids_rest' = _check_already(panoids', root)
    /\ task_pids' = <<>>
    /\ errors' = 0
    /\ img_num' = 0
    /\ i' = 0
    /\ pc' = "loop"
    /\ UNCHANGED <<config, root, pano, logfile, projected, run, style_idx,
                   raised, history,
                   progress, inflight, phase2>>
    /\ UNCHANGED cvars

\* the same step with the pending list computed again from a new listing
LoopAppend_relisting ==
    /\ pc = "loop"
    /\ panoids_rest' = _check_already(panoids, root)
    /\ i < Len(panoids_rest')
    /\ i % nthreads # 0 \/ i = 0
    /\ task_pids' = Append(task_pids, panoids_rest'[i + 1])
    /\ i' = i + 1
    /\ UNCHANGED <<config, root, pano, logfile, projected, pc, run, panoids,
                   errors, img_num, style_idx, raised, history,
                   progress, inflight, phase2>>
    /\ UNCHANGED cvars

\* lines 263-265
LoopAppend ==
    /\ pc = "loop"
    /\ i < Len(panoids_rest)
    /\ i % nthreads # 0 \/ i = 0
    /\ task_pids' = Append(task_pids, panoids_rest[i + 1])
    /\ i' = i + 1
    /\ UNCHANGED <<config, root, pano, logfile, projected, pc, run, panoids,
                   panoids_rest, errors, img_num, style_idx, raised, history,
                   progress, inflight, phase2>>
    /\ UNCHANGED cvars

\* the batch handed to a pool that is not waited for
Dispatch_nowait ==
    /\ pc = "loop"
    /\ i < Len(panoids_rest)
    /\ ~(i % nthreads # 0 \/ i = 0)
    /\ dispatched' = Append(dispatched, task_pids)
    /\ inflight' = inflight + 1
    /\ task_pids' = <<>>
    /\ i' = i + 1
    /\ UNCHANGED <<config, root, pano, logfile, projected, pc, run, panoids,
                   panoids_rest, errors, img_num, style_idx, raised, outcomes,
                   root0, pano0, log0, projected0, progress, phase2>>
    /\ UNCHANGED cvars

\* lines 266-269: the batch is handed to dwl_multiple
Dispatch ==
    /\ pc = "loop"
    /\ i < Len(panoids_rest)
    /\ ~(i % nthreads # 0 \/ i = 0)
    /\ pc' = "fetch"
    /\ dispatched' = Append(dispatched, task_pids)
    /\ inflight' = inflight + 1
    /\ UNCHANGED <<config, locals, root, pano, logfile, projected, run,
                   style_idx, raised, outcomes, root0, pano0, log0, projected0,
                   progress, phase2>>
    /\ UNCHANGED cvars

\* the same step with img_num raised by the length of the batch
DispatchOk_by_length ==
    /\ pc = "fetch"
    /\ pano' = dwl_multiple(pano, {task_pids[k] : k \in 1..Len(task_pids)})
    /\ inflight' = inflight - 1
    /\ img_num' = img_num + Len(task_pids)
    /\ progress' = Append(progress, [task |-> i, total |-> Len(panoids_rest),
                                     got |-> img_num', errors |-> errors])
    /\ task_pids' = <<>>
    /\ i' = i + 1
    /\ outcomes' = Append(outcomes, "ok")
    /\ pc' = "loop"
    /\ UNCHANGED <<config, root, logfile, projected, run, panoids,
                   panoids_rest, errors, style_idx, raised, dispatched, root0,
                   pano0, log0, projected0, phase2>>
    /\ UNCHANGED cvars

\* lines 269-272, 279: dwl_multiple returns
DispatchOk ==
    /\ pc = "fetch"
    /\ pano' = dwl_multiple(pano, {task_pids[k] : k \in 1..Len(task_pids)})
    /\ inflight' = inflight - 1
    /\ img_num' = img_num + nthreads
    /\ progress' = Append(progress, [task |-> i, total |-> Len(panoids_rest),
                                     got |-> img_num', errors |-> errors])
    /\ task_pids' = <<>>
    /\ i' = i + 1
    /\ outcomes' = Append(outcomes, "ok")
    /\ pc' = "loop"
    /\ UNCHANGED <<config, root, logfile, projected, run, panoids,
                   panoids_rest, errors, style_idx, raised, dispatched, root0,
                   pano0, log0, projected0, phase2>>
    /\ UNCHANGED cvars

\* the same step with no handler around dwl_multiple: the exception leaves
\* download_gsv
DispatchFail_uncaught ==
    /\ pc = "fetch"
    /\ \E done \in SUBSET {task_pids[k] : k \in 1..Len(task_pids)} :
          /\ done # {task_pids[k] : k \in 1..Len(task_pids)}
          /\ pano' = dwl_multiple(pano, done)
    /\ inflight' = inflight - 1
    /\ pc' = "raised"
    /\ raised' = "fetch"
    /\ outcomes' = Append(outcomes, "fail")
    /\ UNCHANGED <<config, locals, root, logfile, projected, run, style_idx,
                   dispatched, root0, pano0, log0, projected0, progress,
                   phase2>>
    /\ UNCHANGED cvars

\* lines 269, 273-279: dwl_multiple raises, the fetch of at least one
\* identifier of the batch having failed; print(e) is not a progress line
DispatchFail ==
    /\ pc = "fetch"
    /\ \E done \in SUBSET {task_pids[k] : k \in 1..Len(task_pids)} :
          /\ done # {task_pids[k] : k \in 1..Len(task_pids)}
          /\ pano' = dwl_multiple(pano, done)
    /\ inflight' = inflight - 1
    /\ errors' = errors + nthreads
    /\ logfile' = IF log_path # "" THEN _log_write(logfile, task_pids)
                  ELSE logfile
    /\ task_pids' = <<>>
    /\ i' = i + 1
    /\ outcomes' = Append(outcomes, "fail")
    /\ pc' = "loop"
    /\ UNCHANGED <<config, root, projected, run, panoids, panoids_rest,
                   img_num, style_idx, raised, dispatched, root0, pano0, log0,
                   projected0, progress, phase2>>
    /\ UNCHANGED cvars

\* the loop's end with a final flush of the identifiers left in task_pids
LoopExit_flushing ==
    /\ pc = "loop"
    /\ i >= Len(panoids_rest)
    /\ pc' = "styles"
    /\ IF task_pids # <<>>
       THEN /\ dispatched' = Append(dispatched, task_pids)
            /\ outcomes' = Append(outcomes, "ok")
            /\ pano' = dwl_multiple(pano, {task_pids[k] : k \in 1..Len(task_pids)})
            /\ img_num' = img_num + nthreads
            /\ task_pids' = <<>>
       ELSE UNCHANGED <<dispatched, outcomes, pano, img_num, task_pids>>
    /\ UNCHANGED <<config, root, logfile, projected, run, panoids,
                   panoids_rest, i, errors, style_idx, raised, root0, pano0,
                   log0, projected0, progress, inflight, phase2>>
    /\ UNCHANGED cvars

\* line 263: range exhausted
LoopExit ==
    /\ pc = "loop"
    /\ i >= Len(panoids_rest)
    /\ pc' = "styles"
    /\ UNCHANGED <<config, locals, root, pano, logfile, projected, run,
                   style_idx, raised, history,
                   progress, inflight, phase2>>
    /\ UNCHANGED cvars

\* line 282: no style configured, download_gsv returns
StyleNone ==
    /\ pc = "styles"
    /\ Len(image_style) = 0
    /\ pc' = "done"
    /\ UNCHANGED <<config, locals, root, pano, logfile, projected, run,
                   style_idx, raised, history,
                   progress, inflight, phase2>>
    /\ UNCHANGED cvars

\* lines 284-285
StyleInvalid ==
    /\ pc = "styles"
    /\ Len(image_style) > 0
    /\ ~AllValid(image_style)
    /\ pc' = "raised"
    /\ raised' = "config"
    /\ UNCHANGED <<config, locals, root, pano, logfile, projected, run,
                   style_idx, history,
                   progress, inflight, phase2>>
    /\ UNCHANGED cvars

\* lines 284-287
StyleValid ==
    /\ pc = "styles"
    /\ Len(image_style) > 0
    /\ AllValid(image_style)
    /\ pc' = "transform"
    /\ style_idx' = 1
    /\ UNCHANGED <<config, locals, root, pano, logfile, projected, run,
                   raised, history,
                   progress, inflight, phase2>>
    /\ UNCHANGED cvars

\* lines 288, 231-237: the style directory is made, one task is submitted
\* for each name of os.listdir(dir_input)
TransformSubmit ==
    /\ pc = "transform"
    /\ style_idx <= Len(image_style)
    /\ LET style == image_style[style_idx] IN
          /\ root' = root \cup {<<style>>}
          /\ running' = running \cup {<<style, name>> : name \in pano}
          /\ submitted' = submitted \cup {<<style, name>> : name \in pano}
    /\ pc' = "join"
    /\ UNCHANGED <<config, locals, pano, logfile, projected, run, style_idx,
                   raised, history, progress, inflight, requests, written>>
    /\ UNCHANGED cvars

\* the executor left without waiting for its tasks
TransformOk_nowait ==
    /\ pc = "join"
    /\ \A t \in running : t[2] \notin malformed
    /\ style_idx' = style_idx + 1
    /\ pc' = "transform"
    /\ UNCHANGED <<config, locals, root, pano, logfile, projected, run, raised,
                   history, progress, inflight, phase2>>
    /\ UNCHANGED cvars

\* lines 236-241: every task's result() returns, the executor is left with
\* all tasks finished
TransformOk ==
    /\ pc = "join"
    /\ \A t \in running : t[2] \notin malformed
    /\ projected' = projected \cup running
    /\ requests' = requests \cup
                      UNION {run_requests(t[1], t[2], ShowSize) : t \in running}
    /\ written' = written \cup
                     UNION {{<<t[1], f>> : f \in run_written(t[1], t[2])} :
                               t \in running}
    /\ running' = {}
    /\ style_idx' = style_idx + 1
    /\ pc' = "transform"
    /\ UNCHANGED <<config, locals, root, pano, logfile, run, raised, history,
                   progress, inflight, submitted>>
    /\ UNCHANGED cvars

\* lines 236-241: a task's result() raises; the executor still finishes the
\* submitted tasks before the exception leaves _transform_image
TransformRaise ==
    /\ pc = "join"
    /\ \E t \in running : t[2] \in malformed
    /\ LET good == {t \in running : t[2] \notin malformed} IN
          /\ projected' = projected \cup good
          /\ requests' = requests \cup
                            UNION {run_requests(t[1], t[2], ShowSize) : t \in good}
          /\ written' = written \cup
                           UNION {{<<t[1], f>> : f \in run_written(t[1], t[2])} :
                                     t \in good}
    /\ running' = {}
    /\ pc' = "raised"
    /\ raised' = "projection"
    /\ UNCHANGED <<config, locals, root, pano, logfile, run, style_idx,
                   history, progress, inflight, submitted>>
    /\ UNCHANGED cvars

\* line 287: the style loop is exhausted, download_gsv returns
Return ==
    /\ pc = "transform"
    /\ style_idx > Len(image_style)
    /\ pc' = "done"
    /\ UNCHANGED <<config, locals, root, pano, logfile, projected, run,
                   style_idx, raised, history,
                   progress, inflight, phase2>>
    /\ UNCHANGED cvars

\* the caller runs the pipeline again on the same configuration
Rerun ==
    /\ pc \in {"done", "raised"}
    /\ run < MaxRuns
    /\ run' = run + 1
    /\ pc' = "idle"
    /\ UNCHANGED <<config, locals, root, pano, logfile, projected, style_idx,
                   raised, history,
                   progress, inflight, phase2>>
    /\ UNCHANGED cvars

\* one call of download_gsv
Call ==
    \/ Begin
    \/ ReadAndCheck
    \/ LoopAppend
    \/ Dispatch
    \/ DispatchOk
    \/ DispatchFail
    \/ LoopExit
    \/ StyleNone
    \/ StyleInvalid
    \/ StyleValid
    \/ TransformSubmit
    \/ TransformOk
    \/ TransformRaise
    \/ Return

Next ==
    \/ Call
    \/ Rerun

Spec == Init /\ [][Next]_vars

\* a single call, on an output directory with no stray file
FairInit == Init /\ root \cap StrayRoot = {}

\* the interpreter runs the call to its end
FairSpec == FairInit /\ [][Call]_vars /\ WF_vars(Call)

\* the files that appeared in dir_output since the call started
Appeared == {f \in root \ root0 : Len(f) > 1}

\* line 95 reads the directory once; afterwards another writer puts the file
\* <identifier>.jpg of a pending identifier not yet dispatched in dir_output
FileAppears ==
    /\ pc \in {"loop", "fetch"}
    /\ Cardinality(Appeared) < MaxAppear
    /\ \E k \in 1..Len(panoids_rest) :
          /\ panoids_rest[k] \notin {Flatten(dispatched)[j] :
                                         j \in 1..Len(Flatten(dispatched))}
          /\ Jpg(panoids_rest[k]) \notin root
          /\ root' = root \cup {Jpg(panoids_rest[k])}
    /\ UNCHANGED <<config, locals, pano, logfile, projected, pc, run,
                   style_idx, raised, history, progress, inflight, phase2>>
    /\ UNCHANGED cvars

NextShared ==
    \/ Call
    \/ FileAppears

\* a single call on an output directory that another writer adds files to
SpecShared == FairInit /\ [][NextShared]_vars

----------------------------------------------------------------------------
(* ClassifierQuality.classify (zensvi/cv/classification/quality.py) *)

\* lines 159-172: the patterns "*.<ext>" given to rglob, in order
ImageExts == <<"jpg", "jpeg", "png", "gif", "bmp", "tiff",
               "JPG", "JPEG", "PNG", "GIF", "BMP", "TIFF">>

\* Path.suffix without its dot: the text after the last dot, a leading dot
\* not counting
FileSuffix(name) ==
    IF \E k \in 2..Len(name) : name[k] = "."
    THEN LET k == CHOOSE k \in 2..Len(name) :
                      name[k] = "." /\ \A j \in (k + 1)..Len(name) : name[j] # "."
         IN SubSeq(name, k + 1, Len(name))
    ELSE <<>>

\* Path.stem
FileStem(name) ==
    IF \E k \in 2..Len(name) : name[k] = "."
    THEN SubSeq(name, 1, Len(name) - Len(FileSuffix(name)) - 1)
    ELSE name

\* str.lower() of an extension
Lower(ext) ==
    [k \in 1..Len(ext) |->
        CASE ext[k] = "JPG" -> "jpg" [] ext[k] = "JPEG" -> "jpeg"
          [] ext[k] = "PNG" -> "png" [] ext[k] = "GIF" -> "gif"
          [] ext[k] = "BMP" -> "bmp" [] ext[k] = "TIFF" -> "tiff"
          [] OTHER -> ext[k]]

RECURSIVE SeqOf(_)
\* the elements of a set in the order a directory scan yields them
SeqOf(S) ==
    IF S = {} THEN <<>>
    ELSE LET x == CHOOSE x \in S : TRUE IN <<x>> \o SeqOf(S \ {x})

\* lines 154-174: img_paths
img_paths(input) ==
    IF input.is_file THEN SeqOf(input.files)
    ELSE Flatten([k \in 1..Len(ImageExts) |->
                     SeqOf({f \in input.files : FileSuffix(f) = <<ImageExts[k]>>})])

\* lines 19-24: ImageDataset.__init__
ImageDataset(paths) ==
    SelectSeq(paths, LAMBDA f :
                 /\ Lower(FileSuffix(f)) \in {<<"jpg">>, <<"jpeg">>, <<"png">>}
                 /\ f[1] # ".")

\* "word" in save_format
InFormat(word, fmt) == \E k \in 1..Len(fmt) : fmt[k] = word

\* the format compared with == in place of in
_save_results_to_file_exact(dir, rows, file_name, fmt) ==
    [exists |-> TRUE,
     files |-> dir.files
               \cup (IF fmt = <<"csv">> THEN {file_name \o <<".", "csv">>} ELSE {})
               \cup (IF fmt = <<"json">> THEN {file_name \o <<".", "json">>} ELSE {})]

\* lines 98-118: the directory after _save_results_to_file
_save_results_to_file(dir, rows, file_name, fmt) ==
    [exists |-> TRUE,
     files |-> dir.files
               \cup (IF InFormat("csv", fmt)
                     THEN {file_name \o <<".", "csv">>} ELSE {})
               \cup (IF InFormat("json", fmt)
                     THEN {file_name \o <<".", "json">>} ELSE {})]

\* line 125: save_format="json csv"
DefaultFormat == <<"json", " ", "csv">>

FormatChoices == {DefaultFormat, <<"csv">>, <<"json">>, <<"parquet">>}

\* an image file that cannot be opened
CorruptImage == <<"bad", ".", "jpg">>

\* the files the input directory may hold
InputFiles == {<<"p", ".", "jpg">>, <<"q", ".", "JPG">>, <<"r", ".", "gif">>,
               <<".", "h", ".", "png">>, CorruptImage}

\* what dir_summary_output may be before the call
SummaryChoices ==
    {[exists |-> FALSE, files |-> {}], [exists |-> TRUE, files |-> {}],
     [exists |-> TRUE, files |-> {<<"notes", ".", "txt">>}]}

\* no download is under way
DownloaderIdle ==
    /\ DownloaderInit
    /\ image_style = <<>>
    /\ nthreads = 1
    /\ csv = <<>>
    /\ log_path = ""
    /\ root = {}
    /\ pano = {}

ClsInit ==
    /\ DownloaderIdle
    /\ c_pc = "idle"
    /\ dir_input \in {[is_file |-> FALSE, files |-> fs] : fs \in SUBSET InputFiles}
                     \cup {[is_file |-> TRUE, files |-> {f}] : f \in InputFiles}
    /\ batch_size \in 1..MaxBatch
    /\ save_format \in FormatChoices
    /\ summary \in SummaryChoices
    /\ todo = <<>>
    /\ results = <<>>

\* lines 149-177: the summary directory is made, the images are collected
ClsPrepare ==
    /\ c_pc = "idle"
    /\ summary' = [summary EXCEPT !.exists = TRUE]
    /\ todo' = ImageDataset(img_paths(dir_input))
    /\ results' = <<>>
    /\ c_pc' = "infer"
    /\ UNCHANGED <<dvars, dir_input, batch_size, save_format>>

\* the next batch of the dataloader
NextBatch ==
    SubSeq(todo, 1, IF Len(todo) < batch_size THEN Len(todo) ELSE batch_size)

\* lines 181-192: one batch of the dataloader gives one row for each image
ClsBatchOk ==
    /\ c_pc = "infer"
    /\ todo # <<>>
    /\ \A k \in 1..Len(NextBatch) : NextBatch[k] # CorruptImage
    /\ results' = results \o [k \in 1..Len(NextBatch) |-> FileStem(NextBatch[k])]
    /\ todo' = SubSeq(todo, Len(NextBatch) + 1, Len(todo))
    /\ UNCHANGED <<dvars, c_pc, dir_input, batch_size, save_format, summary>>

\* lines 38-40: Image.open raises, the exception leaves classify
ClsBatchRaise ==
    /\ c_pc = "infer"
    /\ todo # <<>>
    /\ \E k \in 1..Len(NextBatch) : NextBatch[k] = CorruptImage
    /\ c_pc' = "raised"
    /\ UNCHANGED <<dvars, dir_input, batch_size, save_format, summary, todo,
                   results>>

\* lines 194-200: the results are saved, classify returns
ClsSave ==
    /\ c_pc = "infer"
    /\ todo = <<>>
    /\ summary' = _save_results_to_file(summary, results, <<"results">>,
                                        save_format)
    /\ c_pc' = "returned"
    /\ UNCHANGED <<dvars, dir_input, batch_size, save_format, todo, results>>

ClsNext ==
    \/ ClsPrepare
    \/ ClsBatchOk
    \/ ClsBatchRaise
    \/ ClsSave

SpecClassify == ClsInit /\ [][ClsNext]_vars

----------------------------------------------------------------------------
TypeOK ==
    /\ pc \in {"idle", "read", "loop", "fetch", "styles", "transform", "join",
               "done", "raised"}
    /\ run \in 1..MaxRuns
    /\ i \in 0..Len(panoids_rest)
    /\ Len(dispatched) = Len(outcomes) + inflight

----------------------------------------------------------------------------
(* Properties *)

Range(s) == {s[k] : k \in 1..Len(s)}

InCall == pc \in {"loop", "fetch", "styles", "transform", "join", "done",
                 "raised"}

\* the identifiers of the batches whose fetch failed, in dispatch order
FailedPids ==
    Flatten([k \in 1..Len(outcomes) |->
                IF outcomes[k] = "fail" THEN dispatched[k] ELSE <<>>])

\* the file name without its extension (os.path.splitext): the text before
\* the last dot, a leading dot not counting
Stem(name) ==
    IF \E k \in 2..Len(name) : name[k] = "."
    THEN LET k == CHOOSE k \in 2..Len(name) :
                      name[k] = "." /\ \A j \in (k + 1)..Len(name) : name[j] # "."
         IN SubSeq(name, 1, k - 1)
    ELSE name

\* this step dispatched a batch whose fetch had the outcome o
BatchStep(o) ==
    /\ Len(outcomes') = Len(outcomes) + 1
    /\ outcomes'[Len(outcomes')] = o

\* C1: for the pending list [a,b,c,d,e] and batch size 2 the batches are
\* [a,b] then [c,d]; the concatenation of the dispatched batches is always a
\* prefix of the pending list.
C1_BatchesArePrefix ==
    /\ (/\ pc \in {"styles", "transform", "join", "done", "raised"}
        /\ panoids_rest = <<<<"a">>, <<"b">>, <<"c">>, <<"d">>, <<"e">>>>
        /\ nthreads = 2)
       => dispatched = << <<<<"a">>, <<"b">>>>, <<<<"c">>, <<"d">>>> >>
    /\ Flatten(dispatched) =
          SubSeq(panoids_rest, 1, Len(Flatten(dispatched)))

\* C2: every dispatched batch holds exactly nthreads identifiers.
C2_BatchSizeIsNthreads ==
    \A k \in 1..Len(dispatched) : Len(dispatched[k]) = nthreads

\* C3: in a re-run on an output directory that held no other files, the
\* pending list is the requested list without the identifiers whose panorama
\* <dir_output>/panorama/<identifier>.jpg existed when the re-run started.
C3_RerunSkipsProduced ==
    (run >= 2 /\ InCall /\ root0 \cap StrayRoot = {})
    => panoids_rest = SelectSeq(panoids, LAMBDA id : Jpg(id) \notin pano0)

\* C4: the pending list is the requested list, in order, without the
\* identifiers equal to the base name (name without extension) of an entry
\* of the listed directory.
C4_PendingByBaseName ==
    pc = "loop"
    => panoids_rest =
          SelectSeq(panoids, LAMBDA id : id \notin {Stem(name) : name \in root})

\* C5: a batch of k identifiers whose fetch fails adds exactly k to errors
\* and leaves img_num unchanged.
C5_FailureAddsBatchSize ==
    [][BatchStep("fail")
       => errors' = errors + Len(task_pids) /\ img_num' = img_num]_vars

\* C6: a batch whose fetch returns adds the number of its identifiers to
\* img_num and leaves errors unchanged.
C6_SuccessAddsBatchSize ==
    [][BatchStep("ok")
       => img_num' = img_num + Len(task_pids) /\ errors' = errors]_vars

\* C7: whatever batches fail, the download loop ends and reaches the style
\* check having dispatched exactly the batches of the failure-free grouping
\* of the pending list.
C7_FailuresNeverHalt ==
    (pc = "loop")
    ~> (pc = "styles"
        /\ dispatched = _get_nthreads_pid(panoids_rest, nthreads))

C7_Witness ==
    /\ pc = "styles"
    /\ Len(dispatched) >= 2
    /\ outcomes[1] = "fail"
    /\ dispatched[2] # <<>>

\* C8: when the style error is raised, no batch has been dispatched, no
\* directory has been created and no projection has run in this call.
C8_StyleErrorBeforeWork ==
    raised = "config"
    => dispatched = <<>> /\ root = root0 /\ projected = projected0

\* C9: a panorama that cannot be projected is skipped: download_gsv returns
\* normally, and by then every other panorama is projected in every
\* configured style.
C9_ProjectionFailureSkipped ==
    /\ raised # "projection"
    /\ (pc = "done" /\ AllValid(image_style))
       => \A k \in 1..Len(image_style) : \A name \in pano \ malformed :
             <<image_style[k], name>> \in projected

\* C10: with a log configured, the log file is its content at the start of
\* the call followed by one newline-terminated line for each identifier of
\* each failed batch, in order; with no log configured it never changes.
C10_LogAppendsFailedBatches ==
    logfile = IF log_path # ""
              THEN log0 \o Flatten([k \in 1..Len(FailedPids) |->
                                       FailedPids[k] \o <<"\n">>])
              ELSE log0

C10_Witness ==
    /\ log_path # ""
    /\ log0 # <<>>
    /\ \E j, k \in 1..Len(outcomes) :
          /\ outcomes[j] = "ok"
          /\ outcomes[k] = "fail"
          /\ Len(dispatched[k]) >= 2
    /\ Len(logfile) > Len(log0)

\* position of an identifier in the pending list
PosIn(ps, id) == CHOOSE k \in 1..Len(ps) : ps[k] = id

\* sub occurs in s as a run of consecutive tokens
Occurs(sub, s) ==
    \E k \in 0..(Len(s) - Len(sub)) : SubSeq(s, k + 1, k + Len(sub)) = sub

AfterLoop == pc \in {"styles", "transform", "join", "done"}
             \/ (pc = "raised" /\ raised # "fetch")

\* C11: after each batch, failed or not, a progress line with the cumulative
\* processed and error counts has been printed.
C11_ProgressAfterEachBatch ==
    pc \in {"loop", "styles"}
    => /\ Len(progress) = Len(outcomes)
       /\ Len(progress) > 0
          => /\ progress[Len(progress)].got = img_num
             /\ progress[Len(progress)].errors = errors

\* C12: when download_gsv ends with valid styles configured, one projection
\* task has been submitted for each configured style and each file of the
\* panorama directory; with no style configured no task is submitted.
C12_TaskPerStyleAndFile ==
    (pc \in {"done", "raised"} /\ AllValid(image_style))
    => submitted = {<<image_style[k], name>> :
                       k \in 1..Len(image_style), name \in pano}

\* C13: with show_size 100 every panorama projected in the perspective style
\* has exactly four get_perspective calls, headings 0, 90, 180, 270, each
\* with FOV 90, pitch 0, width 400, height 225; no other call is made.
C13_PerspectiveShape ==
    /\ \A t \in projected :
          t[1] = "perspective"
          => {r \in requests : r.name = t[2]} =
                {[name |-> t[2], FOV |-> 90, theta |-> th, phi |-> 0,
                  height |-> 225, width |-> 400] : th \in {0, 90, 180, 270}}
    /\ \A r \in requests : <<"perspective", r.name>> \in projected

C13_Witness ==
    /\ pc = "done"
    /\ Cardinality({t \in projected : t[1] = "perspective"}) >= 2
    /\ Cardinality(requests) >= 8

\* <identifier>_Direction_<theta>_FOV_<fov>_aspect_<W>--<H>_raw.png for the
\* 400 x 225 output, ratio 16 : 9
PerspectiveName(id, th) ==
    id \o <<"_Direction_", ToString(th), "_FOV_", "90", "_aspect_", "16",
            "--", "9", "_raw", ".", "png">>

\* C14: for each projected panorama <identifier>.jpg the perspective style
\* has written the four files <identifier>_Direction_<theta>_FOV_90_aspect_
\* <W>--<H>_raw.png, width first.
C14_PerspectiveFileNames ==
    \A t \in projected :
       t[1] = "perspective"
       => \A th \in {0, 90, 180, 270} :
             <<"perspective", PerspectiveName(Stem(t[2]), th)>> \in written

\* C15: the fisheye projection of <identifier>.jpg is written to
\* <identifier>.png, and distinct panoramas have distinct output files.
C15_FisheyeFileNames ==
    /\ \A t \in projected :
          t[1] = "fisheye"
          => <<"fisheye", Stem(t[2]) \o <<".", "png">>>> \in written
    /\ Cardinality({w \in written : w[1] = "fisheye"}) =
          Cardinality({t \in projected : t[1] = "fisheye"})

\* C17: a pending list of n identifiers is dispatched in floor(n / nthreads)
\* batches.
C17_FullGroupsDispatched ==
    AfterLoop => Len(dispatched) = Len(panoids_rest) \div nthreads

\* the final group of the pending list when it is shorter than nthreads
TrailingGroup ==
    LET n == Len(panoids_rest)
    IN IF n % nthreads # 0
       THEN {panoids_rest[k] : k \in ((n \div nthreads) * nthreads + 1)..n}
       ELSE {}

\* C18: the identifiers of a final group shorter than nthreads are in no
\* dispatched batch and in no line appended to the log in this call, and
\* the counters hold only what the dispatched batches added.
C18_TrailingGroupNeverFlushed ==
    InCall
    => /\ \A id \in TrailingGroup :
             /\ id \notin Range(Flatten(dispatched))
             /\ ~Occurs(id \o <<"\n">>,
                        SubSeq(logfile, Len(log0) + 1, Len(logfile)))
       /\ img_num = nthreads * Cardinality({k \in 1..Len(outcomes) :
                                               outcomes[k] = "ok"})
       /\ errors = nthreads * Cardinality({k \in 1..Len(outcomes) :
                                              outcomes[k] = "fail"})

C18_Witness ==
    /\ pc = "styles"
    /\ Cardinality(TrailingGroup) >= 2
    /\ task_pids # <<>>
    /\ Len(outcomes) >= 1
    /\ outcomes[1] = "fail"
    /\ log_path # ""

\* C19: at most one batch is in flight; while a batch is in flight every
\* earlier batch has returned and its counters and log lines are in place;
\* the identifiers are dispatched in the order of the pending list.
C19_BatchBarrier ==
    /\ inflight <= 1
    /\ inflight = 1
       => /\ pc = "fetch"
          /\ Len(outcomes) = Len(dispatched) - 1
          /\ img_num + errors = nthreads * Len(outcomes)
          /\ log_path # ""
             => logfile = log0 \o Flatten([k \in 1..Len(FailedPids) |->
                                              FailedPids[k] \o <<"\n">>])
    /\ InCall
       => LET flat == Flatten(dispatched)
          IN \A j, k \in 1..Len(flat) :
                j < k => PosIn(panoids_rest, flat[j]) < PosIn(panoids_rest, flat[k])

C19_Witness ==
    /\ pc = "fetch"
    /\ Len(dispatched) >= 2
    /\ outcomes[1] = "fail"
    /\ task_pids # <<>>

\* C20: while the download loop runs or a batch is in flight no projection
\* task of this call has been submitted; the tasks that run together belong
\* to one style, the one the style loop is at, the styles are taken in the
\* configured order and the tasks of the styles before it have finished.
C20_PhasesDoNotOverlap ==
    /\ (pc \in {"read", "loop", "fetch"} \/ inflight > 0)
       => submitted = {} /\ running = {}
    /\ running # {}
       => /\ pc = "join"
          /\ Len(outcomes) = Len(dispatched)
          /\ \A t \in running : t[1] = image_style[style_idx]
          /\ {t[1] : t \in submitted} =
                {image_style[k] : k \in 1..style_idx}
          /\ submitted \ running \subseteq projected

C20_Witness ==
    /\ pc = "join"
    /\ style_idx = 2
    /\ Cardinality(running) >= 2
    /\ Len(dispatched) >= 1

\* C16: when classify has returned with the default save_format, the
\* directory dir_summary_output exists and holds results.csv or
\* results.json.
C16_SummaryHasResults ==
    (c_pc = "returned" /\ save_format = DefaultFormat)
    => /\ summary.exists
       /\ summary.files \cap {<<"results", ".", "csv">>,
                              <<"results", ".", "json">>} # {}

C16_Witness ==
    /\ c_pc = "returned"
    /\ save_format = DefaultFormat
    /\ ~dir_input.is_file
    /\ batch_size = 3
    /\ Len(results) >= 2

\* the number of identifiers passed to dwl_multiple in the batches of this
\* call whose fetch had the outcome o
PassedIn(o) ==
    Len(Flatten([k \in 1..Len(outcomes) |->
                    IF outcomes[k] = o THEN dispatched[k] ELSE <<>>]))

\* C22: img_num is at most the number of identifiers passed to dwl_multiple
\* in batches that returned, errors is at most the number of identifiers
\* passed in batches that failed, and no dispatched batch is empty.
C22_CountersBoundedByPassed ==
    InCall
    => /\ img_num <= PassedIn("ok")
       /\ errors <= PassedIn("fail")
       /\ \A k \in 1..Len(dispatched) : dispatched[k] # <<>>

\* C23: the step that completes a batch leaves img_num + errors equal to
\* nthreads times the number of completed batches, both counters
\* non-negative multiples of nthreads; no step of the call after the
\* counters are set to zero lowers a counter.
C23_CountersStepByNthreads ==
    [][/\ pc = "fetch"
          => /\ img_num' + errors' = nthreads * Len(outcomes')
             /\ img_num' >= 0 /\ img_num' % nthreads = 0
             /\ errors' >= 0 /\ errors' % nthreads = 0
       /\ pc \in {"loop", "fetch", "styles", "transform", "join"}
          => /\ img_num' >= img_num
             /\ errors' >= errors]_vars

C23_Witness ==
    /\ pc = "loop"
    /\ nthreads >= 2
    /\ Len(outcomes) >= 2
    /\ outcomes[1] = "fail"
    /\ outcomes[2] = "ok"
    /\ img_num = nthreads
    /\ errors = nthreads

\* the listing line 95 returned: the directory as the call found it, with
\* the panorama directory made at line 255
Snapshot == root0 \cup {<<"panorama">>}

\* C21: the pending list is the one computed from the listing taken before
\* the first dispatch and no later step changes it; the batches dispatched
\* are those of that list, whatever files appear in dir_output afterwards.
C21_PendingComputedOnce ==
    [][/\ pc \in {"loop", "fetch"}
          => /\ panoids_rest = _check_already(_read_pids(csv), Snapshot)
             /\ panoids_rest' = panoids_rest
       /\ pc' = "styles"
          => dispatched' = _get_nthreads_pid(
                               _check_already(_read_pids(csv), Snapshot),
                               nthreads)]_vars

C21_Witness ==
    /\ pc = "styles"
    /\ Len(dispatched) >= 2
    /\ \E id \in Range(dispatched[Len(dispatched)]) : Jpg(id) \in Appeared

====
